---- MODULE Spec2Model ----
(***************************************************************************)
(* Model of the segment rendering and caching pipeline of the voiceover    *)
(* builder: src/src/render.ts (renderSegments and the cache manifest),     *)
(* the finalisation step of src/src/chunking.ts (index, slug, hash), the   *)
(* string helpers of src/src/utils.ts and probeDuration of ffmpeg.ts.      *)
(*                                                                         *)
(* Strings are sequences of one-character strings.  One build is one pass: *)
(* chunkScript's finalisation followed by renderSegments, whose awaits are *)
(* the steps of the model.  Between passes the environment edits the       *)
(* script, removes segment files or damages the cache manifest file.       *)
(*                                                                         *)
(* Six specifications share the variables:                                 *)
(*   Spec      renderSegments over several passes;                         *)
(*   WarmSpec  the same passes over a directory an earlier build filled;   *)
(*   PureSpec  contentHash, writeAllOutputs (timeline, chapters,           *)
(*             captions), chunkScript, autoChunk and the segment names     *)
(*             applied to inputs drawn from bounded sets, one application  *)
(*             held in call;                                               *)
(*   ApiSpec   generateSpeech and splitTextForApi of the TTS client;       *)
(*   BuildSpec one run of buildCommand, held in build;                     *)
(*   VoiceSpec listVoices and its ten-minute cache, held in voice.         *)
(***************************************************************************)
EXTENDS Integers, Sequences, FiniteSets, TLC

\* ------------------------------------------------------------------------
\* Bounds of the model
\* ------------------------------------------------------------------------
MaxSegs == 2
MaxPasses == 2

\* Inputs: section titles (the title of section i is fixed), section texts,
\* voices, language, durations.
Titles == << <<"A">>, <<"?">>, <<"B", " ", "c">> >>
Texts == { <<"x">>, <<"y">> }
Voices == { <<"v">> }
DefaultLanguage == <<"e", "n">>
TtsDurations == { 2 }
ProbeOutcomes ==
  { [k |-> "throws", v |-> 0], [k |-> "nan", v |-> 0], [k |-> "num", v |-> 3] }

\* ------------------------------------------------------------------------
\* utils.ts: slugify, zeroPad, contentHash
\* ------------------------------------------------------------------------
UpperChars == << "A", "B", "C", "D", "E", "F", "G", "H", "I", "J", "K", "L", "M",
                 "N", "O", "P", "Q", "R", "S", "T", "U", "V", "W", "X", "Y", "Z" >>
LowerChars == << "a", "b", "c", "d", "e", "f", "g", "h", "i", "j", "k", "l", "m",
                 "n", "o", "p", "q", "r", "s", "t", "u", "v", "w", "x", "y", "z" >>
DigitChars == << "0", "1", "2", "3", "4", "5", "6", "7", "8", "9" >>

Range(s) == { s[i] : i \in DOMAIN s }

toLowerCase(c) ==
  IF c \in Range(UpperChars)
    THEN LowerChars[CHOOSE i \in DOMAIN UpperChars : UpperChars[i] = c]
    ELSE c

IsSlugChar(c) == c \in Range(LowerChars) \cup Range(DigitChars)

\* .replace(/['']/g, '')
RECURSIVE StripQuotes(_)
StripQuotes(s) ==
  IF s = << >> THEN << >>
  ELSE IF Head(s) = "'" THEN StripQuotes(Tail(s))
  ELSE << Head(s) >> \o StripQuotes(Tail(s))

\* .replace(/[^a-z0-9]+/g, '-')
RECURSIVE DashRuns(_, _)
DashRuns(s, inRun) ==
  IF s = << >> THEN << >>
  ELSE IF IsSlugChar(Head(s)) THEN << Head(s) >> \o DashRuns(Tail(s), FALSE)
  ELSE IF inRun THEN DashRuns(Tail(s), TRUE)
  ELSE << "-" >> \o DashRuns(Tail(s), TRUE)

\* .replace(/^-+|-+$/g, '')
RECURSIVE TrimLeadingDashes(_)
TrimLeadingDashes(s) ==
  IF s # << >> /\ Head(s) = "-" THEN TrimLeadingDashes(Tail(s)) ELSE s

RECURSIVE TrimTrailingDashes(_)
TrimTrailingDashes(s) ==
  IF s # << >> /\ s[Len(s)] = "-"
    THEN TrimTrailingDashes(SubSeq(s, 1, Len(s) - 1))
    ELSE s

SlugMaxLen == 60

slugify(text) ==
  LET lowered == [i \in DOMAIN text |-> toLowerCase(text[i])]
      trimmed == TrimTrailingDashes(TrimLeadingDashes(DashRuns(StripQuotes(lowered), FALSE)))
  IN  SubSeq(trimmed, 1, IF Len(trimmed) < SlugMaxLen THEN Len(trimmed) ELSE SlugMaxLen)

\* String(n)
RECURSIVE NumberToString(_)
NumberToString(n) ==
  IF n < 10 THEN << DigitChars[n + 1] >>
  ELSE NumberToString(n \div 10) \o << DigitChars[(n % 10) + 1] >>

RECURSIVE padStart(_, _, _)
padStart(s, width, c) ==
  IF Len(s) >= width THEN s ELSE padStart(<< c >> \o s, width, c)

ZeroPadWidth == 3

zeroPad(n) == padStart(NumberToString(n), ZeroPadWidth, "0")

\* contentHash with the text left out of the digest.
contentHashNoText(text, voice, language) == voice \o language

\* The digest is fed the parts one after another (h.update(p) for each part),
\* so it is a function of their concatenation; the digest itself is taken to
\* be collision free on the byte stream it is fed.
contentHash(text, voice, language) == text \o voice \o language

\* ------------------------------------------------------------------------
\* chunking.ts: step 3 of chunkScript (number, slug and hash each section)
\* ------------------------------------------------------------------------
Finalize(rawSections, voice, language) ==
  [i \in DOMAIN rawSections |->
     [index |-> i,
      title |-> rawSections[i].title,
      slug  |-> slugify(rawSections[i].title),
      text  |-> rawSections[i].text,
      hash  |-> contentHash(rawSections[i].text, voice, language)]]

\* ------------------------------------------------------------------------
\* render.ts: file names, cache keys, the cache manifest
\* ------------------------------------------------------------------------
WavSuffix == << ".", "w", "a", "v" >>

segmentFileName(segment) ==
  zeroPad(segment.index) \o << "-" >>
    \o (IF segment.slug # << >> THEN segment.slug ELSE slugify(segment.title))
    \o WavSuffix

\* A key that runs the padded index and the slug together.
segmentCacheKeyNoSeparator(segment) == zeroPad(segment.index) \o segment.slug

segmentCacheKey(segment) == zeroPad(segment.index) \o << "-" >> \o segment.slug

\* Values that JSON.parse can return for the manifest file: an object (a
\* mapping from keys to entries), null, or another scalar.
EmptyMap == [x \in {} |-> x]
EmptyObject == [t |-> "obj", m |-> EmptyMap]
JsonNull == [t |-> "null", m |-> EmptyMap]
JsonNumber == [t |-> "num", m |-> EmptyMap]

\* The manifest file: absent, text that is not JSON, or a JSON document.
FileMissing == [kind |-> "missing", doc |-> EmptyObject]
FileGarbage == [kind |-> "garbage", doc |-> EmptyObject]
JsonFile(doc) == [kind |-> "json", doc |-> doc]

loadCacheManifest(file) ==
  IF file.kind = "missing" THEN EmptyObject
  ELSE IF file.kind = "garbage" THEN EmptyObject
  ELSE file.doc

\* cache[key] raises a TypeError when cache is null.
LookupThrows(cache) == cache.t = "null"

HasEntry(cache, key) == cache.t = "obj" /\ key \in DOMAIN cache.m

\* IsCacheHit without the fileExists test.
IsCacheHitNoFileCheck(frc, cache, segment, disk) ==
  /\ ~frc
  /\ HasEntry(cache, segmentCacheKey(segment))
  /\ cache.m[segmentCacheKey(segment)].hash = segment.hash
  /\ cache.m[segmentCacheKey(segment)].file = segmentFileName(segment)

\* The condition of the if statement of the first loop.
IsCacheHit(frc, cache, segment, disk) ==
  /\ ~frc
  /\ HasEntry(cache, segmentCacheKey(segment))
  /\ cache.m[segmentCacheKey(segment)].hash = segment.hash
  /\ cache.m[segmentCacheKey(segment)].file = segmentFileName(segment)
  /\ segmentFileName(segment) \in DOMAIN disk

\* A second loop that starts from an empty object instead of { ...cache }.
SpreadCacheEmpty(cache) == [x \in {} |-> x]

\* { ...cache }: own enumerable properties of an object; none for null or a
\* number.
SpreadCache(cache) == IF cache.t = "obj" THEN cache.m ELSE EmptyMap

\* results.unshift instead of results.push.
PushResultFront(rs, r) == << r >> \o rs

PushResult(rs, r) == Append(rs, r)

\* ffmpeg.ts probeDuration: null when ffprobe cannot be run, fails, or
\* prints no duration; the parsed number otherwise.
probeDuration(out) ==
  IF out.k = "num" THEN [isNull |-> FALSE, v |-> out.v]
  ELSE [isNull |-> TRUE, v |-> 0]

\* The duration the cache entry stores: the TTS estimate, whatever the probe says.
ResultDurationTtsOnly(probed, ttsDuration) == ttsDuration

\* probed ?? ttsResponse.duration_seconds
ResultDuration(probed, ttsDuration) ==
  IF probed.isNull THEN ttsDuration ELSE probed.v

Put(f, key, val) == [x \in DOMAIN f \cup {key} |-> IF x = key THEN val ELSE f[x]]


\* ------------------------------------------------------------------------
\* State
\* ------------------------------------------------------------------------
VARIABLES
  script,        \* the raw sections of the script file: <<[title, text], ...>>
  files,         \* segments directory: file name -> audio it holds
  cacheFile,     \* segments/.cache.json
  pc,            \* position of renderSegments: idle, classify, render, write, probe
  force,         \* options.force of the running pass
  segments,      \* the Segment[] argument of the running pass
  cache,         \* const cache
  results,       \* const results
  updatedCache,  \* const updatedCache
  k,             \* position of the second loop in results
  ttsResponse,   \* the response of the generateSpeech call in progress
  outcome,       \* none, running, ok (returned), failed (threw), typeerror
  error,         \* the Error thrown by the pass
  synthLog,      \* indices of the segments generateSpeech was called for, this pass
  rendered,      \* indices of the segments whose try block completed, this pass
  saveLog,       \* one record per saveCacheManifest call of this pass
  cacheFile0,    \* the manifest file as it was when the pass started
  files0,        \* the segments directory as it was when the pass started
  probeLog,      \* index -> what the probe and the TTS response reported, this pass
  prev,          \* how the pass before this one ended
  touched,       \* what the environment did since the last pass ended (one step)
  everSaved,     \* some pass has saved the manifest
  passes,        \* number of passes started
  call,          \* the application of a pure function under study: name, args, result
  build,         \* the state of one run of the build command
  voice          \* the voice list cache of the TTS client, its clock and its calls

vars == << script, files, cacheFile, pc, force, segments, cache, results,
           updatedCache, k, ttsResponse, outcome, error, synthLog, rendered,
           saveLog, cacheFile0, files0, probeLog, prev, touched, everSaved, passes,
           call, build, voice >>

renderVars == << script, files, cacheFile, pc, force, segments, cache, results,
                 updatedCache, k, ttsResponse, outcome, error, synthLog, rendered,
                 saveLog, cacheFile0, files0, probeLog, prev, touched, everSaved,
                 passes >>

passVars == << force, segments, cache, results, updatedCache, k, ttsResponse,
               synthLog, rendered, saveLog, cacheFile0, files0, probeLog, prev, passes >>

InitialText == << "x" >>
TitleAt(i) == Titles[((i - 1) % Len(Titles)) + 1]
InitialScript(n) == [i \in 1..n |-> [title |-> TitleAt(i), text |-> InitialText]]

NoError == [kind |-> "none", title |-> << >>]
NoResponse == [audio |-> << >>, duration_seconds |-> 0]
NoPrev == [outcome |-> "none", segments |-> << >>,
           rendered |-> {}, touched |-> {}, saved |-> FALSE]

NoCall == [name |-> "none"]
NoBuild == [pc |-> "none"]
NoVoice == [pending |-> -1]

RenderInit ==
  /\ script \in { InitialScript(n) : n \in 0..MaxSegs }
  /\ files = EmptyMap
  /\ cacheFile = FileMissing
  /\ pc = "idle"
  /\ force = FALSE
  /\ segments = << >>
  /\ cache = EmptyObject
  /\ results = << >>
  /\ updatedCache = EmptyMap
  /\ k = 1
  /\ ttsResponse = NoResponse
  /\ outcome = "none"
  /\ error = NoError
  /\ synthLog = << >>
  /\ rendered = {}
  /\ saveLog = << >>
  /\ cacheFile0 = FileMissing
  /\ files0 = EmptyMap
  /\ probeLog = EmptyMap
  /\ prev = NoPrev
  /\ touched = {}
  /\ everSaved = FALSE
  /\ passes = 0

Init ==
  /\ RenderInit
  /\ call = NoCall
  /\ build = NoBuild
  /\ voice = NoVoice

\* ------------------------------------------------------------------------
\* The environment, between passes: at most one change to the script, the
\* segment files or the manifest file between two builds.
\* ------------------------------------------------------------------------
EditText ==
  /\ pc = "idle"
  /\ touched = {}
  /\ \E i \in DOMAIN script, t \in Texts :
       /\ t # script[i].text
       /\ script' = [script EXCEPT ![i].text = t]
  /\ touched' = touched \cup {"edit"}
  /\ UNCHANGED << files, cacheFile, pc, outcome, error, everSaved, passVars,
                 call, build, voice >>

AppendSection ==
  /\ pc = "idle"
  /\ touched = {}
  /\ Len(script) < MaxSegs
  /\ \E t \in Texts :
       script' = Append(script, [title |-> TitleAt(Len(script) + 1), text |-> t])
  /\ touched' = touched \cup {"resize"}
  /\ UNCHANGED << files, cacheFile, pc, outcome, error, everSaved, passVars,
                 call, build, voice >>

DropSection ==
  /\ pc = "idle"
  /\ touched = {}
  /\ script # << >>
  /\ script' = SubSeq(script, 1, Len(script) - 1)
  /\ touched' = touched \cup {"resize"}
  /\ UNCHANGED << files, cacheFile, pc, outcome, error, everSaved, passVars,
                 call, build, voice >>

RemoveSegmentFile ==
  /\ pc = "idle"
  /\ touched = {}
  /\ \E f \in DOMAIN files : files' = [x \in DOMAIN files \ {f} |-> files[x]]
  /\ touched' = touched \cup {"rmfile"}
  /\ UNCHANGED << script, cacheFile, pc, outcome, error, everSaved, passVars,
                 call, build, voice >>

DamageCacheFile ==
  /\ pc = "idle"
  /\ touched = {}
  /\ \E c \in { FileGarbage, JsonFile(JsonNull), JsonFile(JsonNumber) } :
       /\ c # cacheFile
       /\ cacheFile' = c
  /\ touched' = touched \cup {"damage"}
  /\ UNCHANGED << script, files, pc, outcome, error, everSaved, passVars,
                 call, build, voice >>

\* ------------------------------------------------------------------------
\* renderSegments
\* ------------------------------------------------------------------------
\* build.ts: chunkScript, then renderSegments up to the end of "Load cache".
StartPass ==
  /\ pc = "idle"
  /\ passes < MaxPasses
  /\ \E f \in BOOLEAN, v \in Voices :
       /\ force' = f
       /\ segments' = Finalize(script, v, DefaultLanguage)
       /\ cache' = IF f THEN EmptyObject ELSE loadCacheManifest(cacheFile)
  /\ results' = << >>
  /\ updatedCache' = EmptyMap
  /\ k' = 1
  /\ ttsResponse' = NoResponse
  /\ outcome' = "running"
  /\ error' = NoError
  /\ synthLog' = << >>
  /\ rendered' = {}
  /\ saveLog' = << >>
  /\ cacheFile0' = cacheFile
  /\ files0' = files
  /\ probeLog' = EmptyMap
  /\ prev' = [outcome |-> outcome, segments |-> segments,
              rendered |-> rendered, touched |-> touched, saved |-> everSaved]
  /\ touched' = {}
  /\ passes' = passes + 1
  /\ pc' = "classify"
  /\ UNCHANGED << script, files, cacheFile, everSaved,
                 call, build, voice >>

\* One iteration of the first loop ("Determine what needs rendering").
Classify ==
  /\ pc = "classify"
  /\ Len(results) < Len(segments)
  /\ LET segment == segments[Len(results) + 1]
         key == segmentCacheKey(segment)
     IN  IF ~force /\ LookupThrows(cache)
           THEN /\ pc' = "idle"
                /\ outcome' = "typeerror"
                /\ error' = [kind |-> "TypeError", title |-> << >>]
                /\ UNCHANGED results
           ELSE /\ results' =
                     PushResult(results,
                       [segment  |-> segment,
                        fileName |-> segmentFileName(segment),
                        cached   |-> IsCacheHit(force, cache, segment, files),
                        duration |-> IF IsCacheHit(force, cache, segment, files)
                                       THEN cache.m[key].duration ELSE 0])
                /\ UNCHANGED << pc, outcome, error >>
  /\ UNCHANGED << script, files, cacheFile, force, segments, cache, updatedCache,
                  k, ttsResponse, synthLog, rendered, saveLog, cacheFile0,
                  files0, probeLog, prev, touched, everSaved, passes,
                 call, build, voice >>

\* End of the first loop: const updatedCache = { ...cache }.
BeginRender ==
  /\ pc = "classify"
  /\ Len(results) = Len(segments)
  /\ updatedCache' = SpreadCache(cache)
  /\ k' = 1
  /\ pc' = "render"
  /\ UNCHANGED << script, files, cacheFile, force, segments, cache, results,
                  ttsResponse, outcome, error, synthLog, rendered, saveLog,
                  cacheFile0, files0, probeLog, prev, touched, everSaved, passes,
                 call, build, voice >>

\* if (result.cached) continue
SkipCached ==
  /\ pc = "render"
  /\ k <= Len(results)
  /\ results[k].cached
  /\ k' = k + 1
  /\ UNCHANGED << script, files, cacheFile, pc, force, segments, cache, results,
                  updatedCache, ttsResponse, outcome, error, synthLog, rendered,
                  saveLog, cacheFile0, files0, probeLog, prev, touched, everSaved, passes,
                 call, build, voice >>

\* A loop that starts the call for a segment and moves on without awaiting it.
GenerateSpeechUnawaited ==
  /\ pc = "render"
  /\ k <= Len(results)
  /\ ~results[k].cached
  /\ synthLog' = Append(synthLog, k)
  /\ k' = k + 1
  /\ UNCHANGED << script, files, cacheFile, pc, force, segments, cache, results,
                  updatedCache, ttsResponse, outcome, error, rendered, saveLog,
                  cacheFile0, files0, probeLog, prev, touched, everSaved, passes,
                  call, build, voice >>

\* await client.generateSpeech(...) resolves.
GenerateSpeech ==
  /\ pc = "render"
  /\ k <= Len(results)
  /\ ~results[k].cached
  /\ \E d \in TtsDurations :
       ttsResponse' = [audio |-> results[k].segment.hash, duration_seconds |-> d]
  /\ synthLog' = Append(synthLog, k)
  /\ pc' = "write"
  /\ UNCHANGED << script, files, cacheFile, force, segments, cache, results,
                  updatedCache, k, outcome, error, rendered, saveLog, cacheFile0,
                  files0, probeLog, prev, touched, everSaved, passes,
                 call, build, voice >>

\* A catch block that saves the partial cache before it throws.
RenderCatchSaving ==
  /\ pc' = "idle"
  /\ outcome' = "failed"
  /\ error' = [kind |-> "Failed to render segment", title |-> results[k].segment.title]
  /\ cacheFile' = JsonFile([t |-> "obj", m |-> updatedCache])
  /\ saveLog' = Append(saveLog, [at |-> k, rendered |-> rendered])
  /\ everSaved' = TRUE
  /\ UNCHANGED << files, results, updatedCache, k >>

\* A catch block that removes the audio files the pass has written.
RenderCatchCleanup ==
  /\ pc' = "idle"
  /\ outcome' = "failed"
  /\ error' = [kind |-> "Failed to render segment", title |-> results[k].segment.title]
  /\ files' = [f \in DOMAIN files \ { results[i].fileName : i \in rendered } |-> files[f]]
  /\ UNCHANGED << cacheFile, results, updatedCache, k, saveLog, everSaved >>

\* The catch block: throw new Error(`Failed to render segment "${title}": ...`).
RenderCatch ==
  /\ pc' = "idle"
  /\ outcome' = "failed"
  /\ error' = [kind |-> "Failed to render segment", title |-> results[k].segment.title]
  /\ UNCHANGED << files, cacheFile, results, updatedCache, k, saveLog, everSaved >>

\* await client.generateSpeech(...) rejects.
GenerateSpeechFails ==
  /\ pc = "render"
  /\ k <= Len(results)
  /\ ~results[k].cached
  /\ synthLog' = Append(synthLog, k)
  /\ RenderCatch
  /\ UNCHANGED << script, force, segments, cache, ttsResponse, rendered,
                  cacheFile0, files0, probeLog, prev, touched, passes,
                 call, build, voice >>

\* await writeOutputFile(result.filePath, ttsResponse.audio_data)
WriteAudio ==
  /\ pc = "write"
  /\ files' = Put(files, results[k].fileName, ttsResponse.audio)
  /\ pc' = "probe"
  /\ UNCHANGED << script, cacheFile, force, segments, cache, results, updatedCache,
                  k, ttsResponse, outcome, error, synthLog, rendered, saveLog,
                  cacheFile0, files0, probeLog, prev, touched, everSaved, passes,
                 call, build, voice >>

\* A cache entry that stores the cache key where the file name belongs.
CacheEntryKeyAsFile(result, response) ==
  [hash |-> result.segment.hash,
   file |-> segmentCacheKey(result.segment),
   duration |-> response.duration_seconds]

CacheEntry(result, response) ==
  [hash |-> result.segment.hash,
   file |-> result.fileName,
   duration |-> response.duration_seconds]

\* ProbeAndUpdate that persists the manifest after every segment.
ProbeAndUpdateSaving ==
  /\ pc = "probe"
  /\ \E out \in ProbeOutcomes :
       /\ results' = [results EXCEPT ![k].duration =
                        ResultDuration(probeDuration(out), ttsResponse.duration_seconds)]
       /\ probeLog' = Put(probeLog, k, [probed |-> probeDuration(out),
                                      tts |-> ttsResponse.duration_seconds])
  /\ updatedCache' = Put(updatedCache, segmentCacheKey(results[k].segment),
                         CacheEntry(results[k], ttsResponse))
  /\ cacheFile' = JsonFile([t |-> "obj", m |-> updatedCache'])
  /\ saveLog' = Append(saveLog, [at |-> k, rendered |-> rendered \cup {k}])
  /\ everSaved' = TRUE
  /\ rendered' = rendered \cup {k}
  /\ k' = k + 1
  /\ pc' = "render"
  /\ UNCHANGED << script, files, force, segments, cache, ttsResponse, outcome,
                  error, synthLog, cacheFile0, files0, prev, touched, passes,
                 call, build, voice >>

\* await probeDuration(...), result.duration, and the "Update cache" assignment.
ProbeAndUpdate ==
  /\ pc = "probe"
  /\ \E out \in ProbeOutcomes :
       /\ results' = [results EXCEPT ![k].duration =
                        ResultDuration(probeDuration(out), ttsResponse.duration_seconds)]
       /\ probeLog' = Put(probeLog, k, [probed |-> probeDuration(out),
                                      tts |-> ttsResponse.duration_seconds])
  /\ updatedCache' = Put(updatedCache, segmentCacheKey(results[k].segment),
                         CacheEntry(results[k], ttsResponse))
  /\ rendered' = rendered \cup {k}
  /\ k' = k + 1
  /\ pc' = "render"
  /\ UNCHANGED << script, files, cacheFile, force, segments, cache, ttsResponse,
                  outcome, error, synthLog, saveLog, cacheFile0, files0, prev,
                  touched, everSaved, passes,
                 call, build, voice >>

\* After the second loop: await saveCacheManifest(...); return results.
SaveAndReturn ==
  /\ pc = "render"
  /\ k > Len(results)
  /\ cacheFile' = JsonFile([t |-> "obj", m |-> updatedCache])
  /\ saveLog' = Append(saveLog, [at |-> k, rendered |-> rendered])
  /\ everSaved' = TRUE
  /\ outcome' = "ok"
  /\ pc' = "idle"
  /\ UNCHANGED << script, files, force, segments, cache, results, updatedCache, k,
                  ttsResponse, error, synthLog, rendered, cacheFile0, files0, probeLog, prev,
                  touched, passes,
                 call, build, voice >>

Next ==
  \/ EditText
  \/ AppendSection
  \/ DropSection
  \/ RemoveSegmentFile
  \/ DamageCacheFile
  \/ StartPass
  \/ Classify
  \/ BeginRender
  \/ SkipCached
  \/ GenerateSpeech
  \/ GenerateSpeechFails
  \/ WriteAudio
  \/ ProbeAndUpdate
  \/ SaveAndReturn

Spec == Init /\ [][Next]_vars

\* ------------------------------------------------------------------------
\* Passes over an output directory that an earlier build has filled: the
\* state a successful pass over the initial script leaves on disk (one audio
\* file and one manifest entry per segment), seen by a new process.
\* ------------------------------------------------------------------------
WarmSegments(n) ==
  Finalize(InitialScript(n), CHOOSE v \in Voices : TRUE, DefaultLanguage)

\* writeOutputFile(result.filePath, ttsResponse.audio_data) of every segment.
WarmFiles(segs) ==
  [f \in { segmentFileName(segs[i]) : i \in DOMAIN segs } |->
     (CHOOSE s \in Range(segs) : segmentFileName(s) = f).hash]

\* updatedCache[key] = { hash, file, duration } of every segment, saved.
WarmManifest(segs) ==
  [key \in { segmentCacheKey(segs[i]) : i \in DOMAIN segs } |->
     LET s == CHOOSE s \in Range(segs) : segmentCacheKey(s) = key
     IN  [hash |-> s.hash, file |-> segmentFileName(s),
          duration |-> CHOOSE d \in TtsDurations : TRUE]]

WarmInit ==
  /\ \E n \in 0..MaxSegs :
       /\ script = InitialScript(n)
       /\ files = WarmFiles(WarmSegments(n))
       /\ cacheFile = JsonFile([t |-> "obj", m |-> WarmManifest(WarmSegments(n))])
  /\ everSaved = TRUE
  /\ pc = "idle"
  /\ force = FALSE
  /\ segments = << >>
  /\ cache = EmptyObject
  /\ results = << >>
  /\ updatedCache = EmptyMap
  /\ k = 1
  /\ ttsResponse = NoResponse
  /\ outcome = "none"
  /\ error = NoError
  /\ synthLog = << >>
  /\ rendered = {}
  /\ saveLog = << >>
  /\ cacheFile0 = FileMissing
  /\ files0 = EmptyMap
  /\ probeLog = EmptyMap
  /\ prev = NoPrev
  /\ touched = {}
  /\ passes = 0
  /\ call = NoCall
  /\ build = NoBuild
  /\ voice = NoVoice

WarmSpec == WarmInit /\ [][Next]_vars

\* ------------------------------------------------------------------------
\* Pure functions of the pipeline, applied to inputs drawn from bounded sets.
\* The render variables stay at their initial values; call holds one
\* application: its name, its arguments, and its result once it was applied.
\* ------------------------------------------------------------------------
RenderIdle ==
  /\ RenderInit
  /\ script = << >>

NotApplied == << >>

\* chunkScript hashes (text, voiceId, language) of every segment.
HashTexts == { << "a" >>, << "a", "b" >> }
HashVoices == { << "c" >>, << "b", "c" >> }
HashLanguages == { DefaultLanguage, << "e", "s" >> }
HashTriples == [text : HashTexts, voice : HashVoices, language : HashLanguages]

ContentHashCalls ==
  { [name |-> "contentHash", done |-> FALSE, args |-> << a, b >>, result |-> NotApplied] :
      a \in HashTriples, b \in HashTriples }

ApplyContentHash ==
  /\ call.name = "contentHash"
  /\ ~call.done
  /\ call' = [call EXCEPT
       !.done = TRUE,
       !.result = << contentHash(call.args[1].text, call.args[1].voice, call.args[1].language),
                     contentHash(call.args[2].text, call.args[2].voice, call.args[2].language) >>]
  /\ UNCHANGED << renderVars, build, voice >>

\* ------------------------------------------------------------------------
\* outputs: buildTimeline, buildChapters, buildCaptionsSrt, writeAllOutputs.
\* Durations are in tenths of a second.
\* ------------------------------------------------------------------------
MaxResults == 3
OutDurations == { 0, 10, 20, 35 }

\* A timeline entry whose start ignores the cursor.
TimelineEntryNoCursor(r, cursor) ==
  [index |-> r.segment.index, title |-> r.segment.title, start_seconds |-> 0,
   duration_seconds |-> r.duration, end_seconds |-> r.duration]

TimelineEntry(r, cursor) ==
  [index |-> r.segment.index, title |-> r.segment.title, start_seconds |-> cursor,
   duration_seconds |-> r.duration, end_seconds |-> cursor + r.duration]

\* results.map with the running cursor: the entries from position i on, and
\* the cursor after the last one.
RECURSIVE TimelineFrom(_, _, _)
TimelineFrom(rs, i, cursor) ==
  IF i > Len(rs)
    THEN [entries |-> << >>, cursor |-> cursor]
    ELSE LET rest == TimelineFrom(rs, i + 1, cursor + rs[i].duration)
         IN  [entries |-> << TimelineEntry(rs[i], cursor) >> \o rest.entries,
              cursor |-> rest.cursor]

\* results.some in the place of results.every.
hasDurationsSome(rs) == \E i \in DOMAIN rs : rs[i].duration > 0

hasDurations(rs) == \A i \in DOMAIN rs : rs[i].duration > 0

buildTimeline(rs) ==
  LET fold == TimelineFrom(rs, 1, 0)
  IN  [segments |-> fold.entries,
       total_duration_seconds |-> fold.cursor,
       has_durations |-> hasDurations(rs)]

\* A string | null value: the text is kept as its lines (or blocks).
NullText == [isNull |-> TRUE, lines |-> << >>]
Text(lines) == [isNull |-> FALSE, lines |-> lines]
\* if (x) on a string | null: null and '' are falsy; every line is non-empty,
\* so the joined text is '' exactly when there is no line.
Truthy(t) == ~t.isNull /\ t.lines # << >>

buildChapters(timeline) ==
  IF ~timeline.has_durations
    THEN NullText
    ELSE Text([i \in DOMAIN timeline.segments |->
                 [at |-> timeline.segments[i].start_seconds,
                  title |-> timeline.segments[i].title]])

CaptionMaxLen == 200
CaptionKeep == 197
captionText(segText) ==
  IF Len(segText) > CaptionMaxLen
    THEN SubSeq(segText, 1, CaptionKeep) \o << ".", ".", "." >>
    ELSE segText

buildCaptionsSrt(timeline, segs) ==
  IF ~timeline.has_durations
    THEN NullText
    ELSE Text([i \in DOMAIN timeline.segments |->
                 [n |-> i,
                  from |-> timeline.segments[i].start_seconds,
                  to |-> timeline.segments[i].end_seconds,
                  text |-> captionText(IF i \in DOMAIN segs THEN segs[i].text ELSE << >>)]])

\* The files writeAllOutputs writes, with what it computed on the way.
writeAllOutputs(rs, segs, hasMuxResult) ==
  LET timeline == buildTimeline(rs)
      chapters == buildChapters(timeline)
      captions == buildCaptionsSrt(timeline, segs)
  IN  [timeline |-> timeline,
       chapters |-> chapters,
       captions |-> captions,
       written  |-> {"manifest.json", "timeline.json", "description.txt", "review.html"}
                    \cup (IF Truthy(chapters) THEN {"chapters.txt"} ELSE {})
                    \cup (IF Truthy(captions) THEN {"captions.srt"} ELSE {})
                    \cup (IF hasMuxResult THEN {"mux_report.json"} ELSE {})]

OutputSegment(i) ==
  [index |-> i, title |-> TitleAt(i), text |-> InitialText]
OutputResults ==
  UNION { [1..n -> OutDurations] : n \in 0..MaxResults }
WriteAllOutputsCalls ==
  { [name |-> "writeAllOutputs", done |-> FALSE,
     args |-> [results |-> [i \in DOMAIN ds |-> [segment |-> OutputSegment(i), duration |-> ds[i]]],
               segments |-> [i \in DOMAIN ds |-> OutputSegment(i)],
               muxResult |-> m],
     result |-> NotApplied] : ds \in OutputResults, m \in BOOLEAN }

ApplyWriteAllOutputs ==
  /\ call.name = "writeAllOutputs"
  /\ ~call.done
  /\ call' = [call EXCEPT
       !.done = TRUE,
       !.result = writeAllOutputs(call.args.results, call.args.segments, call.args.muxResult)]
  /\ UNCHANGED << renderVars, build, voice >>

\* ------------------------------------------------------------------------
\* Strings as sequences of characters: trim, split, join
\* ------------------------------------------------------------------------
IsSpace(c) == c \in { " ", "\n", "\t", "\r" }

\* The positions of s that hold no white space.
Inked(s) == { i \in DOMAIN s : ~IsSpace(s[i]) }
FirstInked(s) ==
  CHOOSE i \in DOMAIN s : ~IsSpace(s[i]) /\ \A j \in 1..(i - 1) : IsSpace(s[j])
LastInked(s) ==
  CHOOSE i \in DOMAIN s : ~IsSpace(s[i]) /\ \A j \in (i + 1)..Len(s) : IsSpace(s[j])

trimStart(s) ==
  IF Inked(s) = {} THEN << >> ELSE SubSeq(s, FirstInked(s), Len(s))

trimEnd(s) ==
  IF Inked(s) = {} THEN << >> ELSE SubSeq(s, 1, LastInked(s))

trim(s) == trimEnd(trimStart(s))

\* s.split(sep): the pieces between the separators, cur being the piece under way.
RECURSIVE SplitFrom(_, _, _)
SplitFrom(s, sep, cur) ==
  IF s = << >> THEN << cur >>
  ELSE IF Head(s) = sep THEN << cur >> \o SplitFrom(Tail(s), sep, << >>)
  ELSE SplitFrom(Tail(s), sep, Append(cur, Head(s)))

split(s, sep) == SplitFrom(s, sep, << >>)

RECURSIVE join(_, _)
join(parts, sep) ==
  IF parts = << >> THEN << >>
  ELSE IF Len(parts) = 1 THEN parts[1]
  ELSE parts[1] \o << sep >> \o join(Tail(parts), sep)

\* ------------------------------------------------------------------------
\* chunking.ts: parseMarkdownHeadings
\* ------------------------------------------------------------------------
Preamble == << "P", "r", "e", "a", "m", "b", "l", "e" >>
UntitledSection == << "U", "n", "t", "i", "t", "l", "e", "d", " ", "S", "e", "c", "t", "i", "o", "n" >>

\* '.' of a regular expression matches everything but a line terminator.
IsDot(c) == c \notin { "\n", "\r" }

\* /^#{n}\s+(.+)$/ on a line: the places where the captured group can start.
HeadingCuts(line, n) ==
  IF Len(line) < n + 2 \/ (\E i \in 1..n : line[i] # "#")
    THEN {}
    ELSE { j \in (n + 2)..Len(line) :
             /\ \A i \in (n + 1)..(j - 1) : IsSpace(line[i])
             /\ \A i \in j..Len(line) : IsDot(line[i]) }

HeadingMatches(line, n) == HeadingCuts(line, n) # {}

\* The captured group: \s+ is greedy, so the group starts as late as it can.
HeadingGroup(line, n) ==
  LET j == CHOOSE c \in HeadingCuts(line, n) : \A d \in HeadingCuts(line, n) : d <= c
  IN  SubSeq(line, j, Len(line))

NoSections ==
  [sections |-> << >>, currentTitle |-> << >>, currentLines |-> << >>, h1Title |-> << >>]

\* currentTitle || currentLines.some((l) => l.trim())
HasContent(st) ==
  \/ st.currentTitle # << >>
  \/ \E i \in DOMAIN st.currentLines : trim(st.currentLines[i]) # << >>

PushSection(st) ==
  IF HasContent(st)
    THEN Append(st.sections,
           [title |-> IF st.currentTitle # << >> THEN st.currentTitle
                      ELSE IF st.h1Title # << >> THEN st.h1Title
                      ELSE Preamble,
            text  |-> trim(join(st.currentLines, "\n"))])
    ELSE st.sections

ParseLine(st, line) ==
  IF HeadingMatches(line, 2)
    THEN [sections     |-> PushSection(st),
          currentTitle |-> trim(HeadingGroup(line, 2)),
          currentLines |-> << >>,
          h1Title      |-> st.h1Title]
  ELSE IF HeadingMatches(line, 1) /\ st.currentTitle = << >> /\ st.sections = << >>
    THEN [st EXCEPT !.h1Title = trim(HeadingGroup(line, 1))]
  ELSE [st EXCEPT !.currentLines = Append(@, line)]

RECURSIVE ParseLines(_, _)
ParseLines(lines, st) ==
  IF lines = << >> THEN st ELSE ParseLines(Tail(lines), ParseLine(st, Head(lines)))

NonEmptyText(s) == Len(s.text) > 0

parseMarkdownHeadings(content) ==
  LET st == ParseLines(split(content, "\n"), NoSections)
  IN  SelectSeq(PushSection(st), NonEmptyText)

\* ------------------------------------------------------------------------
\* chunking.ts: autoChunk
\* ------------------------------------------------------------------------
Terminators == { ".", "!", "?" }

\* The character classes of /[^.!?]+[.!?]+[\s]*/, and of the words between /\s+/
InClass(c, class) ==
  CASE class = "unit"  -> c \notin Terminators
    [] class = "stop"  -> c \in Terminators
    [] class = "space" -> IsSpace(c)
    [] class = "word"  -> ~IsSpace(c)

\* The first position from p on whose character is not in the class.
RunEnd(s, p, class) ==
  CHOOSE q \in p..(Len(s) + 1) :
    /\ q > Len(s) \/ ~InClass(s[q], class)
    /\ \A r \in p..(q - 1) : InClass(s[r], class)

\* text.match(/[^.!?]+[.!?]+[\s]*/g): the matches from position p on. A match
\* is a longest run of non-terminators, a longest run of terminators after it,
\* and the white space after that; where none starts, the scan moves on by one.
RECURSIVE SentencesFrom(_, _)
SentencesFrom(s, p) ==
  IF p > Len(s) THEN << >>
  ELSE LET a == RunEnd(s, p, "unit")
       IN  IF a = p THEN SentencesFrom(s, p + 1)
           ELSE IF a > Len(s) THEN << >>
           ELSE LET c == RunEnd(s, RunEnd(s, a, "stop"), "space")
                IN  << SubSeq(s, p, c - 1) >> \o SentencesFrom(s, c)

\* text.match(...) ?? [text]
SentenceUnits(text) ==
  LET matches == SentencesFrom(text, 1)
  IN  IF matches = << >> THEN << text >> ELSE matches

SegmentTitle(n) == << "S", "e", "g", "m", "e", "n", "t", " " >> \o NumberToString(n)

\* A chunk that is closed as soon as the next sentence fills it up.
ClosesChunkEarly(current, sentence, maxChars) ==
  Len(current) + Len(sentence) >= maxChars /\ Len(current) > 0

\* current.length + sentence.length > maxChars && current.length > 0
ClosesChunk(current, sentence, maxChars) ==
  Len(current) + Len(sentence) > maxChars /\ Len(current) > 0

\* The loop of autoChunk from sentence i on.
RECURSIVE ChunkFrom(_, _, _, _, _)
ChunkFrom(sentences, i, current, chunks, maxChars) ==
  IF i > Len(sentences)
    THEN IF trim(current) # << >>
           THEN Append(chunks, [title |-> SegmentTitle(Len(chunks) + 1), text |-> trim(current)])
           ELSE chunks
  ELSE IF ClosesChunk(current, sentences[i], maxChars)
    THEN ChunkFrom(sentences, i + 1, sentences[i],
           Append(chunks, [title |-> SegmentTitle(Len(chunks) + 1), text |-> trim(current)]),
           maxChars)
  ELSE ChunkFrom(sentences, i + 1, current \o sentences[i], chunks, maxChars)

autoChunk(content, maxChars) ==
  LET text == trim(content)
  IN  IF Len(text) <= maxChars
        THEN << [title |-> SegmentTitle(1), text |-> text] >>
        ELSE ChunkFrom(SentenceUnits(text), 1, << >>, << >>, maxChars)

\* ------------------------------------------------------------------------
\* chunking.ts: templates and chunkScript
\* ------------------------------------------------------------------------
NoFile == ""
TEMPLATE_MAP ==
  [youtube   |-> [intro |-> "youtube_intro.txt", outro |-> "youtube_outro.txt"],
   podcast   |-> [intro |-> "podcast_intro.txt", outro |-> NoFile],
   shortform |-> [intro |-> "shortform_hook.txt", outro |-> NoFile]]
NoTemplate == "none"

\* A template file handed on as it was read, without content.trim().
loadTemplateUntrimmed(templateFiles, filename) ==
  IF filename \in DOMAIN templateFiles
    THEN Text(templateFiles[filename])
    ELSE NullText

\* templateFiles: the files of the template directory, name -> content.
loadTemplate(templateFiles, filename) ==
  IF filename \in DOMAIN templateFiles
    THEN Text(trim(templateFiles[filename]))
    ELSE NullText

IntroTitle == << "I", "n", "t", "r", "o" >>
OutroTitle == << "O", "u", "t", "r", "o" >>

WithSource(sections, source) ==
  [i \in DOMAIN sections |->
     [title |-> sections[i].title, text |-> sections[i].text, source |-> source]]

\* headingSections.some((s) => s.title !== 'Preamble' && s.title !== 'Untitled Section')
hasRealHeadings(headingSections) ==
  \E i \in DOMAIN headingSections :
    headingSections[i].title # Preamble /\ headingSections[i].title # UntitledSection

\* Step 1: parse into raw sections.
RawSections(content, options) ==
  IF options.mode = "headings"
    THEN LET headingSections == parseMarkdownHeadings(content)
         IN  IF hasRealHeadings(headingSections) /\ Len(headingSections) > 0
               THEN WithSource(headingSections, "heading")
               ELSE WithSource(autoChunk(content, options.maxChars), "auto")
    ELSE WithSource(autoChunk(content, options.maxChars), "auto")

\* Step 2: apply the template intro and outro.
ApplyTemplate(rawSections, options) ==
  IF options.template \in DOMAIN TEMPLATE_MAP
    THEN LET tmpl == TEMPLATE_MAP[options.template]
             introText == IF tmpl.intro # NoFile
                            THEN loadTemplate(options.templateFiles, tmpl.intro)
                            ELSE NullText
             outroText == IF tmpl.outro # NoFile
                            THEN loadTemplate(options.templateFiles, tmpl.outro)
                            ELSE NullText
             intro == IF Truthy(introText)
                        THEN << [title |-> IntroTitle, text |-> introText.lines,
                                 source |-> "template"] >>
                        ELSE << >>
             outro == IF Truthy(outroText)
                        THEN << [title |-> OutroTitle, text |-> outroText.lines,
                                 source |-> "template"] >>
                        ELSE << >>
         IN  intro \o rawSections \o outro
    ELSE rawSections

\* options.language ?? 'en'
LanguageOf(options) ==
  IF options.hasLanguage THEN options.language ELSE DefaultLanguage

\* Step 3: number, slug and hash each section.
chunkScript(content, options) ==
  LET rawSections == ApplyTemplate(RawSections(content, options), options)
      numbered == Finalize(rawSections, options.voiceId, LanguageOf(options))
  IN  [i \in DOMAIN rawSections |->
         [index  |-> numbered[i].index,
          title  |-> numbered[i].title,
          slug   |-> numbered[i].slug,
          text   |-> numbered[i].text,
          source |-> rawSections[i].source,
          hash   |-> numbered[i].hash]]

\* ------------------------------------------------------------------------
\* chunkScript applied to small documents, given line by line.
\* ------------------------------------------------------------------------
MaxLines == 4
BlankLine == << >>
BodyLine == << "x", "." >>
H1Line == << "#", " ", "T" >>
H2Lines == { << "#", "#", " ", "A" >>, << "#", "#", " ", "B" >>, << "#", "#", " ", "P", "r", "e", "a", "m", "b", "l", "e" >> }
DocLines == { BlankLine, BodyLine, H1Line } \cup H2Lines
Documents == UNION { [1..n -> DocLines] : n \in 0..MaxLines }
ScriptMaxChars == { 6, 40 }
TemplateDir == [f \in { "youtube_intro.txt" } |-> << "H", "i", ".", " " >>]

ChunkScriptCalls ==
  { [name |-> "chunkScript", done |-> FALSE,
     args |-> [lines |-> doc,
               content |-> join(doc, "\n"),
               options |-> [mode |-> mode, maxChars |-> m, hasLanguage |-> FALSE,
                            language |-> << >>, template |-> t,
                            templateFiles |-> TemplateDir, voiceId |-> v]],
     result |-> NotApplied] :
      doc \in Documents, mode \in { "headings", "auto" }, m \in ScriptMaxChars,
      t \in { NoTemplate, "youtube" }, v \in Voices }

ApplyChunkScript ==
  /\ call.name = "chunkScript"
  /\ ~call.done
  /\ call' = [call EXCEPT
       !.done = TRUE,
       !.result = chunkScript(call.args.content, call.args.options)]
  /\ UNCHANGED << renderVars, build, voice >>

\* ------------------------------------------------------------------------
\* chunkScript applied with each template over template directories in which
\* every template file is missing, blank or holds a line of text.
\* ------------------------------------------------------------------------
TemplateFileNames ==
  { "youtube_intro.txt", "youtube_outro.txt", "podcast_intro.txt", "shortform_hook.txt" }
TemplateFileTexts == { << " " >>, << "H", "i", ".", " " >> }
TemplateDirs ==
  UNION { [names -> TemplateFileTexts] : names \in SUBSET TemplateFileNames }
TemplateDocuments ==
  { << >>, << BodyLine >>, << << "#", "#", " ", "A" >>, BodyLine >> }

ChunkScriptTemplateCalls ==
  { [name |-> "chunkScript", done |-> FALSE,
     args |-> [lines |-> doc,
               content |-> join(doc, "\n"),
               options |-> [mode |-> mode, maxChars |-> 40, hasLanguage |-> FALSE,
                            language |-> << >>, template |-> t,
                            templateFiles |-> dir, voiceId |-> v]],
     result |-> NotApplied] :
      doc \in TemplateDocuments, mode \in { "headings", "auto" },
      t \in DOMAIN TEMPLATE_MAP, dir \in TemplateDirs, v \in Voices }

\* ------------------------------------------------------------------------
\* autoChunk applied to short texts over a letter, a terminator and a space.
\* ------------------------------------------------------------------------
MaxTextLen == 6
ChunkChars == { "a", ".", " " }
ChunkTexts == UNION { [1..n -> ChunkChars] : n \in 0..MaxTextLen }
AutoMaxChars == { 2, 3, 4 }

AutoChunkCalls ==
  { [name |-> "autoChunk", done |-> FALSE,
     args |-> [content |-> t, maxChars |-> m],
     result |-> NotApplied] : t \in ChunkTexts, m \in AutoMaxChars }

ApplyAutoChunk ==
  /\ call.name = "autoChunk"
  /\ ~call.done
  /\ call' = [call EXCEPT
       !.done = TRUE,
       !.result = autoChunk(call.args.content, call.args.maxChars)]
  /\ UNCHANGED << renderVars, build, voice >>

\* ------------------------------------------------------------------------
\* cli.ts: splitTextForApi and generateSpeech
\* ------------------------------------------------------------------------
MAX_TEXT_LENGTH == 490

\* text.match(/[^.!?]+[.!?]+[\s]*/g), null when nothing matches
matchSentences(text) ==
  LET matches == SentencesFrom(text, 1)
  IN  [isNull |-> matches = << >>, matches |-> matches]

\* text.split(/\s+/) from position p on: the pieces between runs of white space.
RECURSIVE WordsFrom(_, _)
WordsFrom(s, p) ==
  LET e == RunEnd(s, p, "word")
  IN  IF e > Len(s)
        THEN << SubSeq(s, p, Len(s)) >>
        ELSE << SubSeq(s, p, e - 1) >> \o WordsFrom(s, RunEnd(s, e, "space"))

\* The loop over the words, from word i on.
RECURSIVE SplitWordsFrom(_, _, _, _, _)
SplitWordsFrom(words, i, current, chunks, maxLen) ==
  IF i > Len(words)
    THEN IF trim(current) # << >> THEN Append(chunks, trim(current)) ELSE chunks
  ELSE IF Len(trim(current \o << " " >> \o words[i])) > maxLen /\ current # << >>
    THEN SplitWordsFrom(words, i + 1, words[i], Append(chunks, trim(current)), maxLen)
  ELSE SplitWordsFrom(words, i + 1,
         current \o (IF current # << >> THEN << " " >> ELSE << >>) \o words[i],
         chunks, maxLen)

\* The loop over the sentences, from sentence i on.
RECURSIVE SplitSentencesFrom(_, _, _, _, _)
SplitSentencesFrom(sentences, i, current, chunks, maxLen) ==
  IF i > Len(sentences)
    THEN IF trim(current) # << >> THEN Append(chunks, trim(current)) ELSE chunks
  ELSE IF Len(current \o sentences[i]) > maxLen /\ current # << >>
    THEN SplitSentencesFrom(sentences, i + 1, sentences[i],
           Append(chunks, trim(current)), maxLen)
  ELSE SplitSentencesFrom(sentences, i + 1, current \o sentences[i], chunks, maxLen)

splitTextForApi(text, maxLen) ==
  IF Len(text) <= maxLen THEN << text >>
  ELSE LET sentences == matchSentences(text)
       IN  IF sentences.isNull
             THEN LET chunks == SplitWordsFrom(WordsFrom(text, 1), 1, << >>, << >>, maxLen)
                  IN  IF chunks # << >> THEN chunks ELSE << SubSeq(text, 1, maxLen) >>
             ELSE SplitSentencesFrom(sentences.matches, 1, << >>, << >>, maxLen)

\* concatAudioBuffers / concatWavBuffers: the audio of the parts, in order.
\* The audio of one request is modelled by the text it speaks.
concatAudioBuffers(buffers) == buffers

\* generateSpeech with the endpoint answering the first `answered` requests:
\* the requests sent, and the response or the rejection.
generateSpeech(request, mock, answered, duration) ==
  IF mock
    THEN [requests |-> << >>, threw |-> FALSE,
          response |-> [audio |-> << request.text >>, duration_seconds |-> duration]]
    ELSE LET textChunks == splitTextForApi(request.text, MAX_TEXT_LENGTH)
         IN  IF answered >= Len(textChunks)
               THEN [requests |-> textChunks, threw |-> FALSE,
                     response |-> [audio |-> concatAudioBuffers(textChunks),
                                   duration_seconds |-> duration]]
               ELSE [requests |-> SubSeq(textChunks, 1, answered + 1), threw |-> TRUE,
                     response |-> NoResponse]

\* Texts made of a few long blocks: sentences, words and an unterminated tail.
MaxBlocks == 2
Repeat(c, n) == [i \in 1..n |-> c]
ApiBlocks ==
  { Repeat("a", 199) \o << ".", " " >>,
    Repeat("a", 300) \o << "!", " " >>,
    Repeat("a", 490) \o << "." >>,
    Repeat("b", 200) \o << " " >>,
    Repeat("b", 491) \o << " " >>,
    Repeat("c", 10) }
RECURSIVE ConcatAll(_)
ConcatAll(parts) ==
  IF parts = << >> THEN << >> ELSE Head(parts) \o ConcatAll(Tail(parts))
ApiTexts == { ConcatAll(bs) : bs \in UNION { [1..n -> ApiBlocks] : n \in 1..MaxBlocks } }

GenerateSpeechCalls ==
  { [name |-> "generateSpeech", done |-> FALSE,
     args |-> [request |-> [text |-> t], mock |-> m],
     result |-> NotApplied] : t \in ApiTexts, m \in BOOLEAN }

ApplyGenerateSpeech ==
  /\ call.name = "generateSpeech"
  /\ ~call.done
  /\ \E answered \in 0..(MaxBlocks + 1), d \in TtsDurations :
       call' = [call EXCEPT
         !.done = TRUE,
         !.result = generateSpeech(call.args.request, call.args.mock, answered, d)]
  /\ UNCHANGED << renderVars, build, voice >>

\* ------------------------------------------------------------------------
\* The cache key and the file name of two segments of one segment list:
\* chunkScript gives the section at position i the index i and the slug of
\* its title. Positions up to five digits; titles with equal, empty and
\* truncated slugs, and slugs that start with a digit.
\* ------------------------------------------------------------------------
NamePositions == { 1, 10, 100, 999, 1000, 1001, 10001 }
NameTitles ==
  { << >>, << "?" >>, << "x" >>, << "X" >>, << "0", "x" >>, << "1" >>,
    Repeat("a", SlugMaxLen), Repeat("a", SlugMaxLen + 1),
    Repeat("a", SlugMaxLen - 1) \o << " ", "b" >> }

\* Step 3 of chunkScript for the section at position i.
SegmentAt(i, title) ==
  [index |-> i, title |-> title, slug |-> slugify(title), text |-> InitialText,
   source |-> "auto",
   hash |-> contentHash(InitialText, CHOOSE v \in Voices : TRUE, DefaultLanguage)]

SegmentNames(segment) ==
  [key |-> segmentCacheKey(segment), file |-> segmentFileName(segment)]

SegmentNamesCalls ==
  { [name |-> "segmentNames", done |-> FALSE,
     args |-> << SegmentAt(p[1], s), SegmentAt(p[2], t) >>,
     result |-> NotApplied] :
      p \in { q \in NamePositions \X NamePositions : q[1] < q[2] },
      s \in NameTitles, t \in NameTitles }

ApplySegmentNames ==
  /\ call.name = "segmentNames"
  /\ ~call.done
  /\ call' = [call EXCEPT
       !.done = TRUE,
       !.result = << SegmentNames(call.args[1]), SegmentNames(call.args[2]) >>]
  /\ UNCHANGED << renderVars, build, voice >>

PureInit ==
  /\ RenderIdle
  /\ build = NoBuild
  /\ voice = NoVoice
  /\ \/ call \in ContentHashCalls
     \/ call \in WriteAllOutputsCalls
     \/ call \in ChunkScriptCalls
     \/ call \in ChunkScriptTemplateCalls
     \/ call \in AutoChunkCalls
     \/ call \in SegmentNamesCalls

PureNext ==
  \/ ApplyContentHash
  \/ ApplyWriteAllOutputs
  \/ ApplyChunkScript
  \/ ApplyAutoChunk
  \/ ApplySegmentNames

PureSpec == PureInit /\ [][PureNext]_vars

\* The TTS client alone.
ApiInit ==
  /\ RenderIdle
  /\ build = NoBuild
  /\ voice = NoVoice
  /\ call \in GenerateSpeechCalls

ApiNext ==
  \/ ApplyGenerateSpeech

ApiSpec == ApiInit /\ [][ApiNext]_vars


\* ------------------------------------------------------------------------
\* commands/build.ts: one run of buildCommand. The options and the
\* environment are fixed when the run starts; renderSegments is seen from
\* outside, by the results it returns or the error it throws.
\* ------------------------------------------------------------------------
BuildDurations == { 0, 20 }

BuildOptions ==
  [input : BOOLEAN,         \* --input given
   scriptExists : BOOLEAN,  \* the script file exists
   voice : BOOLEAN,         \* --voice given
   mock : BOOLEAN,          \* --mock
   apiKey : BOOLEAN,        \* VOICE_AI_API_KEY set
   video : BOOLEAN,         \* --video given
   videoExists : BOOLEAN,   \* the video file exists
   mux : BOOLEAN,           \* --mux
   ffmpeg : BOOLEAN]        \* ffmpeg is installed

StartOfBuild(opts) ==
  [pc |-> "validate", opts |-> opts, exitCode |-> 0, errors |-> {},
   nSegments |-> 0, renderStarted |-> FALSE, results |-> << >>, hasMaster |-> FALSE,
   muxResult |-> "none", muxScripts |-> FALSE, written |-> {}, printed |-> {}]

Exit(b, code, message) ==
  [b EXCEPT !.pc = "exited", !.exitCode = code, !.errors = @ \cup {message}]

\* "Validate inputs": each failed check prints an error and exits with 1.
ValidateInputs ==
  /\ build.pc = "validate"
  /\ build' =
       IF ~build.opts.input THEN Exit(build, 1, "--input is required")
       ELSE IF ~build.opts.scriptExists THEN Exit(build, 1, "Script not found")
       ELSE IF ~build.opts.voice THEN Exit(build, 1, "--voice is required")
       ELSE IF ~build.opts.mock /\ ~build.opts.apiKey
         THEN Exit(build, 1, "VOICE_AI_API_KEY not set")
       ELSE [build EXCEPT !.pc = "chunk"]
  /\ UNCHANGED << renderVars, call, voice >>

\* "Resolve settings" and "Read & chunk script": chunkScript returns at least
\* one segment.
ReadAndChunk ==
  /\ build.pc = "chunk"
  /\ \E n \in 1..MaxSegs :
       build' = [build EXCEPT !.pc = "render", !.nSegments = n]
  /\ UNCHANGED << renderVars, call, voice >>

\* "Render segments via TTS": renderSegments returns one result per segment.
RenderReturns ==
  /\ build.pc = "render"
  /\ \E ds \in [1..build.nSegments -> BuildDurations] :
       build' = [build EXCEPT
         !.pc = "stitch",
         !.renderStarted = TRUE,
         !.results = [i \in DOMAIN ds |-> [segment |-> OutputSegment(i), duration |-> ds[i]]]]
  /\ UNCHANGED << renderVars, call, voice >>

\* renderSegments throws: the rejection is not handled and the process ends
\* with exit code 1.
RenderThrows ==
  /\ build.pc = "render"
  /\ build' = [Exit(build, 1, "Failed to render segment") EXCEPT !.renderStarted = TRUE]
  /\ UNCHANGED << renderVars, call, voice >>

\* A stitch step that gives up when ffmpeg is missing.
StitchMasterFatal ==
  /\ build.pc = "stitch"
  /\ \E stitched \in BOOLEAN :
       build' = IF build.opts.ffmpeg
                  THEN [build EXCEPT !.pc = "mux", !.hasMaster = stitched]
                  ELSE Exit(build, 1, "ffmpeg not found")
  /\ UNCHANGED << renderVars, call, voice >>

\* "Check ffmpeg availability" and "Stitch master".
StitchMaster ==
  /\ build.pc = "stitch"
  /\ \E stitched \in BOOLEAN :
       build' = [build EXCEPT
         !.pc = "mux",
         !.hasMaster = build.opts.ffmpeg /\ stitched]
  /\ UNCHANGED << renderVars, call, voice >>

\* "Video muxing (if requested)".
MuxVideo ==
  /\ build.pc = "mux"
  /\ \E success \in BOOLEAN :
       build' =
         IF ~(build.opts.video \/ build.opts.mux) THEN [build EXCEPT !.pc = "outputs"]
         ELSE IF ~build.opts.video \/ ~build.opts.videoExists
           THEN [build EXCEPT !.pc = "outputs", !.errors = @ \cup {"Video file not found"}]
         ELSE IF ~build.hasMaster THEN [build EXCEPT !.pc = "outputs"]
         ELSE IF build.opts.ffmpeg
           THEN [build EXCEPT !.pc = "outputs",
                              !.muxResult = IF success THEN "ok" ELSE "failed"]
         ELSE [build EXCEPT !.pc = "outputs", !.muxScripts = TRUE]
  /\ UNCHANGED << renderVars, call, voice >>

\* "Generate all output files".
WriteOutputs ==
  /\ build.pc = "outputs"
  /\ build' = [build EXCEPT
       !.pc = "summary",
       !.written = writeAllOutputs(build.results,
                     [i \in DOMAIN build.results |-> build.results[i].segment],
                     build.muxResult # "none").written]
  /\ UNCHANGED << renderVars, call, voice >>

\* The success lines and the summary; the handler returns.
PrintSummary ==
  /\ build.pc = "summary"
  /\ build' = [build EXCEPT
       !.pc = "done",
       !.exitCode = 0,
       !.printed = {"manifest.json", "timeline.json", "review.html", "description.txt"}
                   \cup (IF \E i \in DOMAIN build.results : build.results[i].duration > 0
                           THEN {"chapters.txt", "captions.srt"} ELSE {})]
  /\ UNCHANGED << renderVars, call, voice >>

BuildInit ==
  /\ RenderIdle
  /\ call = NoCall
  /\ voice = NoVoice
  /\ build \in { StartOfBuild(o) : o \in BuildOptions }

BuildNext ==
  \/ ValidateInputs
  \/ ReadAndChunk
  \/ RenderReturns
  \/ RenderThrows
  \/ StitchMaster
  \/ MuxVideo
  \/ WriteOutputs
  \/ PrintSummary

BuildSpec == BuildInit /\ [][BuildNext]_vars


\* ------------------------------------------------------------------------
\* cli.ts: the voice list cache of VoiceAIClient.listVoices. The cache is one
\* module-level object shared by every client of the process; a call that
\* misses it awaits the network, so several requests can be pending.
\* Time is in milliseconds and advances in steps of half the time-to-live.
\* ------------------------------------------------------------------------
CACHE_TTL_MS == 600000
MaxTicks == 4
MaxPending == 2
MaxRequests == 3
ClockStep == CACHE_TTL_MS \div 2
VoiceCatalogs == { "catalog1", "catalog2" }
MockCatalog == "POPULAR_VOICES"

NoEntry == [present |-> FALSE, data |-> "", expiresAt |-> 0]
NoVoiceCall == [kind |-> "none"]

\* A cache that still answers at the very millisecond it expires.
CacheFreshAtExpiry(entry, now) ==
  entry.present /\ now <= entry.expiresAt

\* voiceCache.entry && Date.now() < voiceCache.entry.expiresAt
CacheFresh(entry, now) ==
  entry.present /\ now < entry.expiresAt

VoiceStart ==
  [now |-> 0, entry |-> NoEntry, pending |-> 0, requests |-> 0,
   lastCall |-> NoVoiceCall, lastStore |-> NoVoiceCall]

\* Date.now() moves on.
ClockTick ==
  /\ voice.pending >= 0
  /\ voice.now < MaxTicks * ClockStep
  /\ voice' = [voice EXCEPT !.now = @ + ClockStep]
  /\ UNCHANGED << renderVars, call, build >>

\* listVoices of a mock client: mockListVoices, the cache is not looked at.
ListVoicesMock ==
  /\ voice.pending >= 0
  /\ voice' = [voice EXCEPT
       !.lastCall = [kind |-> "mock", at |-> voice.now, answer |-> MockCatalog]]
  /\ UNCHANGED << renderVars, call, build >>

\* listVoices answered by the cache check.
ListVoicesFromCache ==
  /\ voice.pending >= 0
  /\ CacheFresh(voice.entry, voice.now)
  /\ voice' = [voice EXCEPT
       !.lastCall = [kind |-> "cache", at |-> voice.now, answer |-> voice.entry.data]]
  /\ UNCHANGED << renderVars, call, build >>

\* listVoices past the cache check: await fetch(url, ...).
ListVoicesFetch ==
  /\ voice.pending >= 0
  /\ voice.pending < MaxPending
  /\ voice.requests < MaxRequests
  /\ ~CacheFresh(voice.entry, voice.now)
  /\ voice' = [voice EXCEPT
       !.pending = @ + 1,
       !.requests = @ + 1,
       !.lastCall = [kind |-> "network", at |-> voice.now, answer |-> ""]]
  /\ UNCHANGED << renderVars, call, build >>

\* The response of a pending request is ok: the entry is replaced.
FetchSucceeds ==
  /\ voice.pending > 0
  /\ \E data \in VoiceCatalogs :
       voice' = [voice EXCEPT
         !.pending = @ - 1,
         !.entry = [present |-> TRUE, data |-> data,
                    expiresAt |-> voice.now + CACHE_TTL_MS],
         !.lastStore = [kind |-> "stored", at |-> voice.now]]
  /\ UNCHANGED << renderVars, call, build >>

\* !res.ok: listVoices throws, the cache is left as it is.
FetchFails ==
  /\ voice.pending > 0
  /\ voice' = [voice EXCEPT !.pending = @ - 1]
  /\ UNCHANGED << renderVars, call, build >>

VoiceInit ==
  /\ RenderIdle
  /\ call = NoCall
  /\ build = NoBuild
  /\ voice = VoiceStart

VoiceNext ==
  \/ ClockTick
  \/ ListVoicesMock
  \/ ListVoicesFromCache
  \/ ListVoicesFetch
  \/ FetchSucceeds
  \/ FetchFails

VoiceSpec == VoiceInit /\ [][VoiceNext]_vars

\* ------------------------------------------------------------------------
\* Properties
\* ------------------------------------------------------------------------
InPass == outcome \in {"running", "ok", "failed", "typeerror"}
Returned == pc = "idle" /\ outcome = "ok"
Aborted == pc = "idle" /\ outcome = "failed"
Misses == { i \in DOMAIN results : ~results[i].cached }
Synthesized == { synthLog[n] : n \in DOMAIN synthLog }
KeysOf(file) ==
  IF file.kind = "json" /\ file.doc.t = "obj" THEN DOMAIN file.doc.m ELSE {}
SegmentKeys == { segmentCacheKey(segments[i]) : i \in DOMAIN segments }

\* The pass before this one returned, and this pass renders the same list,
\* unforced, with no segment file removed and the manifest left alone.
SameListAgain ==
  /\ passes >= 2
  /\ InPass
  /\ prev.outcome = "ok"
  /\ prev.segments = segments
  /\ prev.touched \cap {"rmfile", "damage"} = {}
  /\ ~force

\* C1: cache round trip.  When a pass has returned and the same unchanged
\* segment list is rendered again over the same directory with force=false
\* and no segment file removed in between, the second pass makes no synthesis
\* call, every result it produces has cached=true, and it does not fail.
C1_CacheRoundTrip ==
  SameListAgain =>
    /\ synthLog = << >>
    /\ \A i \in DOMAIN results : results[i].cached
    /\ outcome \in {"running", "ok"}

C1_Witness == SameListAgain /\ Returned /\ Len(results) >= 2

\* The five conditions of a cache hit for a result, read off the cache as it
\* was loaded and the segments directory as it was when the pass examined it.
C2_AllFiveHold(r) ==
  /\ force = FALSE
  /\ cache.t = "obj"
  /\ segmentCacheKey(r.segment) \in DOMAIN cache.m
  /\ cache.m[segmentCacheKey(r.segment)].hash = r.segment.hash
  /\ cache.m[segmentCacheKey(r.segment)].file = segmentFileName(r.segment)
  /\ segmentFileName(r.segment) \in DOMAIN files0

\* C2: a result has cached=true if and only if force is false, the loaded
\* cache has an entry under the segment's key, the entry's hash is the
\* segment's hash, the entry's file is the segment's file name and that file
\* exists; in a pass that returns, the segments synthesized are exactly the
\* other ones.
C2_HitIffAllConditions ==
  /\ \A i \in DOMAIN results : results[i].cached <=> C2_AllFiveHold(results[i])
  /\ Returned => Synthesized = { i \in DOMAIN results : ~C2_AllFiveHold(results[i]) }

C2_Witness ==
  /\ Returned
  /\ \E i \in DOMAIN results : results[i].cached
  /\ \E i \in DOMAIN results :
       /\ ~force
       /\ HasEntry(cache, segmentCacheKey(results[i].segment))
       /\ cache.m[segmentCacheKey(results[i].segment)].hash = results[i].segment.hash
       /\ results[i].fileName \notin DOMAIN files0
       /\ i \in Synthesized

\* Segment j is the only one whose text differs from the list of the pass
\* before, which returned; indices and titles are the same.
OnlyTextChanged(j) ==
  /\ passes >= 2
  /\ InPass
  /\ prev.outcome = "ok"
  /\ prev.touched \cap {"rmfile", "damage"} = {}
  /\ ~force
  /\ Len(prev.segments) = Len(segments)
  /\ j \in DOMAIN segments
  /\ \A i \in DOMAIN segments :
       /\ prev.segments[i].index = segments[i].index
       /\ prev.segments[i].title = segments[i].title
       /\ (prev.segments[i].text # segments[i].text) <=> (i = j)

\* C3: when exactly one segment's text changed between two passes that both
\* run to the end of classification (the first returned, the second is
\* unforced), the second pass classifies that segment as a miss and every
\* other segment as a hit.
C3_OnlyEditedSegmentMisses ==
  \A j \in 1..(MaxSegs + 1) :
    OnlyTextChanged(j) =>
      \A i \in DOMAIN results : results[i].cached <=> (i # j)

C3_Witness ==
  \E j \in DOMAIN segments :
    /\ OnlyTextChanged(j)
    /\ Returned
    /\ Len(results) >= 2
    /\ Synthesized = {j}

\* C4: when the synthesis of segment k fails the pass stops there: no
\* synthesis call was made for a segment after k, the manifest file was not
\* written (it has the content it had before the pass), and the error names
\* the title of segment k.
C4_AbortOnSynthesisFailure ==
  (Aborted /\ touched = {}) =>
    /\ synthLog # << >>
    /\ k = synthLog[Len(synthLog)]
    /\ \A n \in DOMAIN synthLog : synthLog[n] <= k
    /\ k \notin rendered
    /\ saveLog = << >>
    /\ cacheFile = cacheFile0
    /\ error.kind = "Failed to render segment"
    /\ error.title = segments[k].title

C4_Witness ==
  /\ Aborted
  /\ touched = {}
  /\ k < Len(segments)
  /\ \E i \in DOMAIN results : i > k /\ ~results[i].cached

\* C5: in a pass in which every synthesis succeeds the manifest is written
\* exactly once, after the last segment's synthesis, file write and probe;
\* while the pass is running it has not been written.
C5_SaveOnceAtEnd ==
  /\ outcome = "running" => (saveLog = << >> /\ cacheFile = cacheFile0)
  /\ outcome = "ok" =>
       /\ Len(saveLog) = 1
       /\ saveLog[1].at = Len(segments) + 1
       /\ saveLog[1].rendered = Misses
       /\ Misses = Synthesized

C5_Witness == Returned /\ Cardinality(Misses) >= 2

\* C6 as stated: after any pass that returns, forced or not, every key that
\* was in the manifest file before the pass is still in it.
C6_NeverPruned ==
  (Returned /\ touched = {}) => KeysOf(cacheFile0) \subseteq KeysOf(cacheFile)

\* C6 as amended: after an unforced pass that returns, every key that was in
\* the manifest file before the pass is still in it; a forced pass that
\* returns leaves exactly the keys of the segments of its own list.
C6_PrunedOnlyByForce ==
  (Returned /\ touched = {}) =>
    /\ ~force => KeysOf(cacheFile0) \cup SegmentKeys \subseteq KeysOf(cacheFile)
    /\ force => KeysOf(cacheFile) = SegmentKeys

C6_Witness ==
  /\ Returned
  /\ touched = {}
  /\ ~force
  /\ KeysOf(cacheFile0) \ SegmentKeys # {}
  /\ segments # << >>

\* The manifest file is missing or does not hold a mapping of entries.
CacheUnreadable(file) ==
  \/ file.kind \in {"missing", "garbage"}
  \/ file.kind = "json" /\ file.doc.t # "obj"

\* C7: whenever the manifest file is missing or cannot be read as a mapping,
\* the pass raises no error because of the cache and treats every segment as
\* a miss.
C7_CorruptCacheNeverFatal ==
  (InPass /\ CacheUnreadable(cacheFile0)) =>
    /\ outcome # "typeerror"
    /\ \A i \in DOMAIN results : ~results[i].cached

\* This pass retries the list of the pass before it, which aborted, and no
\* pass had saved the manifest.
RetryAfterAbort ==
  /\ passes >= 2
  /\ InPass
  /\ prev.outcome = "failed"
  /\ prev.segments = segments
  /\ ~prev.saved

\* C8: after a pass aborts, the audio files of the segments it rendered are
\* on disk; when no pass ever saved the manifest, a retry with the same list
\* classifies all of them as misses and, if it returns, has synthesized them
\* again.
C8_AbortKeepsFilesRetryMisses ==
  /\ (Aborted /\ touched = {}) =>
       /\ \A i \in rendered :
            /\ results[i].fileName \in DOMAIN files
            /\ files[results[i].fileName] = segments[i].hash
       /\ \A f \in DOMAIN files0 : f \in DOMAIN files
  /\ RetryAfterAbort =>
       /\ \A i \in DOMAIN results : i \in prev.rendered => ~results[i].cached
       /\ Returned => prev.rendered \subseteq Synthesized

C8_Witness ==
  /\ RetryAfterAbort
  /\ Returned
  /\ ~force
  /\ prev.rendered # {}
  /\ prev.touched = {}

\* C9: the results array has one result per input segment and result i
\* refers to input segment i (while the first loop runs, results is that
\* prefix of the list).
C9_ResultsFollowInput ==
  /\ Len(results) <= Len(segments)
  /\ pc \in {"render", "write", "probe"} \/ Returned => Len(results) = Len(segments)
  /\ \A i \in DOMAIN results :
       /\ results[i].segment = segments[i]
       /\ results[i].fileName = segmentFileName(segments[i])

C9_Witness ==
  /\ Returned
  /\ \E i, j \in DOMAIN results :
       i < j /\ ~results[i].cached /\ results[j].cached /\ results[i].segment # results[j].segment

\* C10: the duration of a newly rendered segment is the probe's value when
\* the probe returns one and the TTS response's duration otherwise; every
\* probe outcome lets the segment complete, and the pass fails only in a
\* segment that was not probed.
C10_ProbeOrTtsDuration ==
  /\ DOMAIN probeLog = rendered
  /\ \A i \in DOMAIN probeLog :
       results[i].duration =
         IF probeLog[i].probed.isNull THEN probeLog[i].tts ELSE probeLog[i].probed.v
  /\ outcome = "failed" => k \notin DOMAIN probeLog
  /\ Returned => rendered = Misses

C10_Witness ==
  /\ Returned
  /\ \E i, j \in DOMAIN probeLog :
       /\ ~probeLog[i].probed.isNull
       /\ probeLog[i].probed.v # probeLog[i].tts
       /\ probeLog[j].probed.isNull

\* ------------------------------------------------------------------------
\* C11: the segment hash is a function of (text, voice, language): two equal
\* triples give equal hashes, and two triples that differ in any of the three
\* components give different hashes.
\* ------------------------------------------------------------------------
Hashed == call.name = "contentHash" /\ call.done

C11_HashIdentifiesTriple ==
  Hashed => ((call.args[1] = call.args[2]) <=> (call.result[1] = call.result[2]))

\* ------------------------------------------------------------------------
\* C12: segments are rendered strictly one after another in document order:
\* the synthesis call for a segment starts only after the synthesis, the write
\* and the probe of every earlier newly rendered segment have completed, no
\* earlier miss is skipped, and at most one synthesis is not yet completed.
\* ------------------------------------------------------------------------
C12_OneAtATimeInOrder ==
  /\ \A n \in DOMAIN synthLog :
       /\ \A m \in 1..(n - 1) : synthLog[m] < synthLog[n] /\ synthLog[m] \in rendered
       /\ \A i \in Misses : i < synthLog[n] => i \in rendered
  /\ Cardinality(Synthesized \ rendered) <= 1
  /\ pc \in {"write", "probe"} => synthLog[Len(synthLog)] = k

C12_Witness ==
  /\ Returned
  /\ Len(synthLog) >= 2
  /\ rendered = Synthesized

\* ------------------------------------------------------------------------
\* C13: buildTimeline is a fold over the results: one entry per result, the
\* first entry starts at 0, each later entry starts where the previous one
\* ends, every entry ends at its start plus its duration, and the total is the
\* sum of all durations.
\* ------------------------------------------------------------------------
OutputsWritten == call.name = "writeAllOutputs" /\ call.done

RECURSIVE SumOfDurations(_)
SumOfDurations(rs) ==
  IF rs = << >> THEN 0 ELSE rs[1].duration + SumOfDurations(Tail(rs))

C13_TimelineIsFold ==
  OutputsWritten =>
    LET rs == call.args.results
        tl == call.result.timeline
    IN  /\ Len(tl.segments) = Len(rs)
        /\ \A i \in DOMAIN tl.segments :
             /\ tl.segments[i].start_seconds =
                  (IF i = 1 THEN 0 ELSE tl.segments[i - 1].end_seconds)
             /\ tl.segments[i].duration_seconds = rs[i].duration
             /\ tl.segments[i].end_seconds = tl.segments[i].start_seconds + rs[i].duration
        /\ tl.total_duration_seconds = SumOfDurations(rs)

C13_Witness ==
  /\ OutputsWritten
  /\ [i \in DOMAIN call.args.results |-> call.args.results[i].duration] = << 20, 35, 10 >>
  /\ [i \in 1..3 |-> call.result.timeline.segments[i].start_seconds] = << 0, 20, 55 >>
  /\ [i \in 1..3 |-> call.result.timeline.segments[i].end_seconds] = << 20, 55, 65 >>
  /\ call.result.timeline.total_duration_seconds = 65

\* ------------------------------------------------------------------------
\* C14: has_durations is true exactly when every result has a duration above
\* zero; when some result has duration 0, buildChapters and buildCaptionsSrt
\* return null and neither chapters.txt nor captions.srt is written, while
\* manifest.json and timeline.json are written in every case.
\* ------------------------------------------------------------------------
C14_NoChaptersWithoutDurations ==
  OutputsWritten =>
    LET rs == call.args.results
        out == call.result
    IN  /\ out.timeline.has_durations <=> (\A i \in DOMAIN rs : rs[i].duration > 0)
        /\ (\E i \in DOMAIN rs : rs[i].duration = 0) =>
             /\ out.chapters.isNull
             /\ out.captions.isNull
             /\ "chapters.txt" \notin out.written
             /\ "captions.srt" \notin out.written
        /\ {"manifest.json", "timeline.json"} \subseteq out.written

C14_Witness ==
  /\ OutputsWritten
  /\ \E i, j \in DOMAIN call.args.results :
       call.args.results[i].duration = 0 /\ call.args.results[j].duration > 0
  /\ "chapters.txt" \notin call.result.written
  /\ "manifest.json" \in call.result.written

\* ------------------------------------------------------------------------
\* C15: in headings mode a document with no second-level heading is not
\* emitted as a heading-mode segment: chunkScript falls back to length-based
\* chunking and every non-template segment has source 'auto', whether or not
\* the document has a first-level heading.
\* ------------------------------------------------------------------------
Chunked == call.name = "chunkScript" /\ call.done
IsSecondLevelHeading(line) == Len(line) >= 4 /\ SubSeq(line, 1, 3) = << "#", "#", " " >>
IsFirstLevelHeading(line) == Len(line) >= 3 /\ SubSeq(line, 1, 2) = << "#", " " >>
HeadingLines(lines) == { i \in DOMAIN lines : IsSecondLevelHeading(lines[i]) }
NonTemplate(segs) == { i \in DOMAIN segs : segs[i].source # "template" }

C15_NoHeadingFallsBackToAuto ==
  (/\ Chunked
   /\ call.args.options.mode = "headings"
   /\ HeadingLines(call.args.lines) = {})
  => /\ \A i \in NonTemplate(call.result) : call.result[i].source = "auto"
     /\ [i \in 1..Cardinality(NonTemplate(call.result)) |->
           LET s == call.result[i + Len(call.result) - Cardinality(NonTemplate(call.result))]
           IN  [title |-> s.title, text |-> s.text]]
        = autoChunk(call.args.content, call.args.options.maxChars)

\* ------------------------------------------------------------------------
\* C16: heading-mode segmentation of a document with N distinct second-level
\* headings, each with a non-empty body, yields exactly N segments, plus one
\* leading segment when a non-empty preamble precedes the first heading; the
\* segments carry the indices 1..count in document order.
\* ------------------------------------------------------------------------
IsBlank(line) == trim(line) = << >>
FirstHeading(lines) == CHOOSE i \in HeadingLines(lines) : \A j \in HeadingLines(lines) : i <= j
\* The lines of the body of the heading at line i: up to the next heading.
BodyOf(lines, i) ==
  { j \in DOMAIN lines : j > i /\ \A h \in HeadingLines(lines) : h <= i \/ h > j }
HasBody(lines, i) == \E j \in BodyOf(lines, i) : ~IsBlank(lines[j])
HasPreamble(lines) ==
  \E j \in 1..(FirstHeading(lines) - 1) :
    ~IsBlank(lines[j]) /\ ~IsFirstLevelHeading(lines[j])
DistinctHeadings(lines) ==
  \A i, j \in HeadingLines(lines) : i # j => lines[i] # lines[j]

C16_OneSegmentPerHeading ==
  (/\ Chunked
   /\ call.args.options.mode = "headings"
   /\ call.args.options.template = NoTemplate
   /\ HeadingLines(call.args.lines) # {}
   /\ DistinctHeadings(call.args.lines)
   /\ \A i \in HeadingLines(call.args.lines) : HasBody(call.args.lines, i))
  => /\ Len(call.result) =
          Cardinality(HeadingLines(call.args.lines))
            + (IF HasPreamble(call.args.lines) THEN 1 ELSE 0)
     /\ \A i \in DOMAIN call.result : call.result[i].index = i

\* ------------------------------------------------------------------------
\* C17: autoChunk loses no text: for an input longer than maxChars, the chunks
\* concatenated in order reconstruct the whole trimmed input up to white
\* space, a final part without a sentence terminator included, and there is
\* at least one chunk.
\* ------------------------------------------------------------------------
AutoChunked == call.name = "autoChunk" /\ call.done
IsNotSpace(c) == ~IsSpace(c)
WithoutSpace(s) == SelectSeq(s, IsNotSpace)
RECURSIVE ConcatTexts(_)
ConcatTexts(chunks) ==
  IF chunks = << >> THEN << >> ELSE chunks[1].text \o ConcatTexts(Tail(chunks))

C17_AutoChunkLosesNoText ==
  (AutoChunked /\ Len(trim(call.args.content)) > call.args.maxChars)
  => /\ Len(call.result) >= 1
     /\ WithoutSpace(ConcatTexts(call.result)) = WithoutSpace(trim(call.args.content))

\* ------------------------------------------------------------------------
\* C18: for an input longer than maxChars, autoChunk accumulates sentence
\* units greedily and never cuts inside one: the chunks are the trimmed runs
\* of a division of the units into consecutive runs, a run of several units is
\* no longer than maxChars, and a run is closed before the last unit only when
\* the next unit would push it over maxChars.
\* ------------------------------------------------------------------------
RECURSIVE ConcatUnits(_, _, _)
ConcatUnits(units, from, to) ==
  IF from > to THEN << >> ELSE units[from] \o ConcatUnits(units, from + 1, to)

\* The division of units 1..n given by the set of units after which it cuts.
RunStarts(cuts) == {1} \cup { c + 1 : c \in cuts }
RunEndOf(cuts, n, s) ==
  CHOOSE e \in { c \in cuts : c >= s } \cup {n} :
    \A f \in { c \in cuts : c >= s } \cup {n} : e <= f
RunRank(cuts, s) == Cardinality({ t \in RunStarts(cuts) : t <= s })

C18_GreedyWholeUnits ==
  (AutoChunked /\ Len(trim(call.args.content)) > call.args.maxChars)
  => LET units == SentenceUnits(trim(call.args.content))
         n == Len(units)
         maxChars == call.args.maxChars
         chunks == call.result
     IN  \E cuts \in SUBSET (1..(n - 1)) :
           /\ Len(chunks) = Cardinality(RunStarts(cuts))
           /\ \A s \in RunStarts(cuts) :
                LET e == RunEndOf(cuts, n, s)
                    run == ConcatUnits(units, s, e)
                IN  /\ chunks[RunRank(cuts, s)].text = trim(run)
                    /\ e > s => Len(run) <= maxChars
                    /\ Len(chunks[RunRank(cuts, s)].text) > maxChars => e = s
                    /\ e < n => Len(run) + Len(units[e + 1]) > maxChars

C18_Witness ==
  /\ AutoChunked
  /\ Len(trim(call.args.content)) > call.args.maxChars
  /\ Len(call.result) >= 2
  /\ Len(SentenceUnits(trim(call.args.content))) > Len(call.result)

\* ------------------------------------------------------------------------
\* C19: for any segment text, every request sent to the TTS endpoint carries
\* a text of at most 490 characters; a longer text is split across several
\* calls whose audio is concatenated in order.
\* ------------------------------------------------------------------------
SpeechGenerated == call.name = "generateSpeech" /\ call.done

C19_RequestsWithinLimit ==
  SpeechGenerated =>
    /\ \A i \in DOMAIN call.result.requests : Len(call.result.requests[i]) <= 490
    /\ (~call.result.threw /\ ~call.args.mock) =>
         call.result.response.audio = call.result.requests

\* ------------------------------------------------------------------------
\* C20: every input error of build (no --input, script file missing, no
\* --voice, no API key outside mock mode, or a --video file that does not
\* exist) is detected before any segment is rendered and ends the run with a
\* non-zero exit.
\* ------------------------------------------------------------------------
InputError(opts) ==
  \/ ~opts.input
  \/ ~opts.scriptExists
  \/ ~opts.voice
  \/ ~opts.mock /\ ~opts.apiKey
  \/ opts.video /\ ~opts.videoExists

C20_InputErrorsFailFast ==
  (build.pc # "none" /\ InputError(build.opts))
  => /\ ~build.renderStarted
     /\ build.pc \in {"done", "exited"} => build.exitCode # 0

\* ------------------------------------------------------------------------
\* C21: when ffmpeg is not installed, build still renders every segment and
\* writes the manifest, the timeline, the description and the review page
\* (and chapters and captions when all durations are positive), skips master
\* stitching and muxing, and completes without failing.
\* ------------------------------------------------------------------------
RenderReturned == build.pc # "none" /\ build.results # << >>
AllPositive(rs) == \A i \in DOMAIN rs : rs[i].duration > 0

C21_NoFfmpegDegrades ==
  (RenderReturned /\ ~build.opts.ffmpeg)
  => /\ build.pc # "exited"
     /\ build.exitCode = 0
     /\ Len(build.results) = build.nSegments
     /\ ~build.hasMaster
     /\ build.muxResult = "none"
     /\ build.pc = "done" =>
          /\ {"manifest.json", "timeline.json", "description.txt", "review.html"}
               \subseteq build.written
          /\ AllPositive(build.results) =>
               {"chapters.txt", "captions.srt"} \subseteq build.written

C21_Witness ==
  /\ build.pc = "done"
  /\ ~build.opts.ffmpeg
  /\ build.opts.video /\ build.opts.videoExists
  /\ Len(build.results) = 2
  /\ AllPositive(build.results)
  /\ "captions.srt" \in build.written

\* ------------------------------------------------------------------------
\* C26: in build, when a video to mux is given and exists but ffmpeg is not
\* installed, the helper mux scripts (replace-audio.sh and replace-audio.ps1)
\* are generated under ffmpeg/ in the output directory.
\* ------------------------------------------------------------------------
C26_MuxScriptsWithoutFfmpeg ==
  (/\ build.pc = "done"
   /\ build.opts.video
   /\ build.opts.videoExists
   /\ ~build.opts.ffmpeg)
  => build.muxScripts

\* ------------------------------------------------------------------------
\* C29: build prints the success lines for chapters.txt and captions.srt
\* exactly when writeAllOutputs wrote those files in that run, for every
\* combination of result durations.
\* ------------------------------------------------------------------------
C29_PrintedIffWritten ==
  build.pc = "done" =>
    \A f \in {"chapters.txt", "captions.srt"} :
      f \in build.printed <=> f \in build.written

\* ------------------------------------------------------------------------
\* C22: the voice list is cached for 10 minutes. A listVoices call of a
\* non-mock client made while an entry exists and the clock is before its
\* expiry time is answered from the entry with no network request; a call
\* made with no entry, or at or after the expiry time, sends a request; the
\* successful response of a request stores the entry with the expiry time set
\* to 10 minutes after the response; a call of a mock client answers the mock
\* catalog and neither reads nor writes the cache.
\* ------------------------------------------------------------------------
TenMinutes == 10 * 60 * 1000

VoiceCallMade ==
  /\ voice.pending >= 0
  /\ voice'.lastCall # voice.lastCall \/ voice'.requests # voice.requests

C22_VoiceCacheStep ==
  /\ VoiceCallMade =>
       LET c == voice'.lastCall
       IN  IF c.kind = "mock"
             THEN /\ c.answer = MockCatalog
                  /\ voice'.entry = voice.entry
                  /\ voice'.requests = voice.requests
           ELSE IF voice.entry.present /\ voice.now < voice.entry.expiresAt
             THEN /\ c.kind = "cache"
                  /\ c.answer = voice.entry.data
                  /\ voice'.entry = voice.entry
                  /\ voice'.requests = voice.requests
           ELSE /\ c.kind = "network"
                /\ voice'.requests = voice.requests + 1
                /\ voice'.pending = voice.pending + 1
  /\ (voice.pending >= 0 /\ voice'.entry # voice.entry) =>
       /\ voice'.pending = voice.pending - 1
       /\ voice'.entry.present
       /\ voice'.entry.expiresAt = voice.now + TenMinutes

C22_VoiceListCachedTenMinutes == [][C22_VoiceCacheStep]_vars

C22_Witness ==
  /\ voice.pending >= 0
  /\ voice.lastCall.kind = "cache"
  /\ voice.requests >= 2
  /\ voice.lastStore.kind = "stored"
  /\ voice.lastStore.at >= TenMinutes
  /\ voice.lastCall.at > voice.lastStore.at
  /\ voice.lastCall.at < voice.entry.expiresAt

\* ------------------------------------------------------------------------
\* C23: with a configured template, chunkScript puts an 'Intro' segment of
\* source 'template' first when the intro file of the template is found, an
\* 'Outro' segment last when its outro file is found, adds no other segment,
\* and numbers the segments 1..n in the final order. "Found" is stated twice:
\* as the file existing (the statement as given), and as the file existing
\* with text left after trimming (the statement the code satisfies).
\* ------------------------------------------------------------------------
TemplateChunked == Chunked /\ call.args.options.template \in DOMAIN TEMPLATE_MAP

FileExists(name) ==
  name # NoFile /\ name \in DOMAIN call.args.options.templateFiles

FileHasText(name) ==
  FileExists(name) /\ trim(call.args.options.templateFiles[name]) # << >>

IsIntro(seg) == seg.source = "template" /\ seg.title = IntroTitle
IsOutro(seg) == seg.source = "template" /\ seg.title = OutroTitle

TemplatePlaced(introFound, outroFound) ==
  LET segs == call.result
      opts == call.args.options
      raw == RawSections(call.args.content, opts)
      n == Len(segs)
  IN  /\ n = Len(raw) + (IF introFound THEN 1 ELSE 0) + (IF outroFound THEN 1 ELSE 0)
      /\ introFound =>
           /\ IsIntro(segs[1])
           /\ segs[1].text = trim(opts.templateFiles[TEMPLATE_MAP[opts.template].intro])
      /\ outroFound =>
           /\ IsOutro(segs[n])
           /\ segs[n].text = trim(opts.templateFiles[TEMPLATE_MAP[opts.template].outro])
      /\ \A i \in 1..n :
           /\ segs[i].index = i
           /\ segs[i].source = "template" =>
                \/ i = 1 /\ introFound
                \/ i = n /\ outroFound
      /\ \A i \in 1..Len(raw) :
           LET s == segs[i + (IF introFound THEN 1 ELSE 0)]
           IN  s.title = raw[i].title /\ s.text = raw[i].text /\ s.source = raw[i].source

\* C23 as stated: a template file that exists gives its segment.
C23_TemplateFileExists ==
  TemplateChunked =>
    LET tmpl == TEMPLATE_MAP[call.args.options.template]
    IN  TemplatePlaced(FileExists(tmpl.intro), FileExists(tmpl.outro))

\* C23 amended: a template file that exists and is not blank gives its segment;
\* a missing or blank file gives none.
C23_TemplateFileWithText ==
  TemplateChunked =>
    LET tmpl == TEMPLATE_MAP[call.args.options.template]
    IN  TemplatePlaced(FileHasText(tmpl.intro), FileHasText(tmpl.outro))

C23_Witness ==
  /\ TemplateChunked
  /\ call.args.options.template = "youtube"
  /\ FileHasText("youtube_intro.txt")
  /\ FileHasText("youtube_outro.txt")
  /\ "podcast_intro.txt" \notin DOMAIN call.args.options.templateFiles
  /\ Len(call.result) = 3
  /\ IsIntro(call.result[1])
  /\ call.result[2].source = "heading"
  /\ call.result[2].index = 2
  /\ IsOutro(call.result[3])
  /\ call.result[3].index = 3

\* ------------------------------------------------------------------------
\* C25: the duration saved in the cache entry of a segment rendered in this
\* pass equals the duration of that segment's RenderResult, whether or not
\* the probe returned a value.
\* ------------------------------------------------------------------------
C25_CacheDurationIsResultDuration ==
  \A i \in rendered :
    (i \in DOMAIN results /\ segmentCacheKey(results[i].segment) \in DOMAIN updatedCache) =>
      updatedCache[segmentCacheKey(results[i].segment)].duration = results[i].duration

\* ------------------------------------------------------------------------
\* C24: while a pass runs, every result with cached = true names a file whose
\* audio was synthesized from the segment's current hash, across passes that
\* were aborted or forced and edits of the text between passes; segment files
\* are written by render passes only.
\* ------------------------------------------------------------------------
C24_CachedAudioIsCurrent ==
  outcome = "running" =>
    \A i \in DOMAIN results :
      results[i].cached =>
        /\ results[i].fileName \in DOMAIN files
        /\ files[results[i].fileName] = results[i].segment.hash

\* ------------------------------------------------------------------------
\* C27: every segment returned by chunkScript has non-empty text, for any
\* content, empty and whitespace-only content included, in both modes.
\* ------------------------------------------------------------------------
C27_NoEmptySegmentText ==
  Chunked => \A i \in DOMAIN call.result : call.result[i].text # << >>

\* ------------------------------------------------------------------------
\* C28: two segments of one segment list (different positions, hence
\* different indices) never share a cache key or an output file name, also
\* when their slugs are equal, empty or truncated to 60 characters and when
\* an index is above 999.
\* ------------------------------------------------------------------------
NamesApplied == call.name = "segmentNames" /\ call.done

C28_KeysAndFilesDistinct ==
  NamesApplied =>
    /\ call.result[1].key # call.result[2].key
    /\ call.result[1].file # call.result[2].file

C28_Witness ==
  /\ NamesApplied
  /\ call.args[1].index = 1
  /\ call.args[2].index = 1001
  /\ call.args[1].title # call.args[2].title
  /\ call.args[1].slug = call.args[2].slug
  /\ Len(call.args[1].slug) = SlugMaxLen
  /\ call.result[1].key # call.result[2].key

\* ------------------------------------------------------------------------
\* C30: splitTextForApi loses no text: the chunks sent to the TTS endpoint
\* by a call that completed, concatenated in order, equal the original text
\* up to whitespace, a final part without sentence terminator included.
\* ------------------------------------------------------------------------
C30_SplitLosesNoText ==
  (SpeechGenerated /\ ~call.args.mock /\ ~call.result.threw) =>
    WithoutSpace(ConcatAll(call.result.requests)) = WithoutSpace(call.args.request.text)

====
